---- MODULE Spec2Model ----
(***************************************************************************)
(* Geometric augmentations of a lidar sweep and its cuboid annotations     *)
(* (rust/src/geometry/augmentations.rs): the two scene reflections and the *)
(* random object scaling.                                                  *)
(*                                                                         *)
(* A data frame is a sequence of rows, a row a function from column names  *)
(* to numbers.  An ndarray is a sequence of rows, a row a sequence of      *)
(* numbers.  Array indices are 1-based here and 0-based in the source.     *)
(* f32 values are modelled by integers: rounding is outside the model.     *)
(* A probability p is modelled by its numerator over PDenom, a scale       *)
(* factor by an integer of the grid low..high.                             *)
(***************************************************************************)
EXTENDS Integers, Sequences, FiniteSets, TLC

\* ------------------------------------------------------------------ bounds
MaxPoints == 2
MaxCuboids == 2
MaxScale == 2
PDenom == 2

VARIABLES
    pc,                   \* "call", "loop", "done" or "panic"
    panic_msg,            \* which unwrap / assertion / index check aborted the call
    op,                   \* the entry point called
    lidar, cuboids,       \* the call's arguments (data frames)
    p,                    \* reflection probability, numerator over PDenom
    low_inclusive, high_inclusive,
    is_augmented,         \* the Bernoulli draw
    points,               \* N x 3 array of the loop
    cuboids_ndarray,      \* M x 10 array of the loop
    interior_points_mask, \* M x N boolean mask
    m,                    \* the mask row the loop is at (1-based)
    scale_factors,        \* the factors drawn so far, in draw order
    augmented_lidar, augmented_cuboids   \* the returned pair

vars == <<pc, panic_msg, op, lidar, cuboids, p, low_inclusive, high_inclusive,
          is_augmented, points, cuboids_ndarray, interior_points_mask, m,
          scale_factors, augmented_lidar, augmented_cuboids>>

\* ------------------------------------------------------------ column names
lidar_column_names == <<"x", "y", "z">>
translation_column_names == <<"tx_m", "ty_m", "tz_m">>
orientation_column_names == <<"qw", "qx", "qy", "qz">>
cuboid_column_names == <<"length_m", "width_m", "height_m">>

\* The column order of the cuboid frame: the loop takes columns 3..6 of
\* cuboids.to_ndarray() for the extent.
CuboidColumns ==
    translation_column_names \o cuboid_column_names \o orientation_column_names

\* s![.., 3..6], 1-based
ExtentSlice == 4..6

\* ------------------------------------------------------------------ inputs
SeqsUpTo(S, n) == UNION {[1..k -> S] : k \in 0..n}

PointRows ==
    { [x |-> 1, y |-> 0, z |-> 0,  intensity |-> 7],
      [x |-> 0, y |-> 6, z |-> 0,  intensity |-> 8],
      [x |-> 3, y |-> 1, z |-> -1, intensity |-> 9] }

CuboidRows ==
    { [tx_m |-> 0, ty_m |-> 0, tz_m |-> 0,
       length_m |-> 10, width_m |-> 10, height_m |-> 10,
       qw |-> 1, qx |-> 0, qy |-> 0, qz |-> 0],
      [tx_m |-> 0, ty_m |-> 6, tz_m |-> 0,
       length_m |-> 2, width_m |-> 2, height_m |-> 2,
       qw |-> 1, qx |-> 0, qy |-> 0, qz |-> 0],
      [tx_m |-> 3, ty_m |-> 1, tz_m |-> -1,
       length_m |-> 2, width_m |-> 4, height_m |-> 2,
       qw |-> 0, qx |-> 0, qy |-> 0, qz |-> 1] }

LidarFrames == SeqsUpTo(PointRows, MaxPoints)
CuboidFrames == SeqsUpTo(CuboidRows, MaxCuboids)
Probabilities == (-1)..(PDenom + 1)
ScaleGrid == (-1)..MaxScale

\* ---------------------------------------------------------- column adapter
Range(s) == {s[j] : j \in DOMAIN s}

Position(layout, c) == CHOOSE j \in DOMAIN layout : layout[j] = c

\* Named columns of a frame as an array, one array column per name.
ndarray_from_frame(frame, column_names) ==
    [r \in 1..Len(frame) |->
        [j \in 1..Len(column_names) |-> frame[r][column_names[j]]]]

data_frame_to_ndarray_f32(frame, column_names) ==
    ndarray_from_frame(frame, column_names)

\* Every column of the frame, in the frame's column order.
to_ndarray(frame) == ndarray_from_frame(frame, CuboidColumns)

\* The adapter back: one series per name, holding the array field of that
\* name.  layout is the column order the array was extracted with.
ndarray_to_expr_vec(arr, column_names, layout) ==
    [c \in Range(column_names) |->
        [r \in 1..Len(arr) |-> arr[r][Position(layout, c)]]]

\* LazyFrame::with_columns: the named columns replaced, row by row, every
\* other column passed through.
with_columns(frame, series) ==
    [r \in 1..Len(frame) |->
        [c \in DOMAIN frame[r] |->
            IF c \in DOMAIN series THEN series[c][r] ELSE frame[r][c]]]

\* concatenate![Axis(1), a, b]
concatenate(a, b) == [r \in 1..Len(a) |-> a[r] \o b[r]]

\* ------------------------------------------------------ geometry primitives
reflect_translation_x(txyz_m) ==
    [r \in 1..Len(txyz_m) |-> <<txyz_m[r][1], -txyz_m[r][2], txyz_m[r][3]>>]

reflect_translation_y(txyz_m) ==
    [r \in 1..Len(txyz_m) |-> <<-txyz_m[r][1], txyz_m[r][2], txyz_m[r][3]>>]

\* The mirrored rotation M R M, M = diag(1,-1,1): (w, -x, y, -z).
reflect_orientation_x(quat_wxyz) ==
    [r \in 1..Len(quat_wxyz) |->
        <<quat_wxyz[r][1], -quat_wxyz[r][2], quat_wxyz[r][3], -quat_wxyz[r][4]>>]

\* M = diag(-1,1,1): (w, x, -y, -z).
reflect_orientation_y(quat_wxyz) ==
    [r \in 1..Len(quat_wxyz) |->
        <<quat_wxyz[r][1], quat_wxyz[r][2], -quat_wxyz[r][3], -quat_wxyz[r][4]>>]

\* Rotation matrix of a unit quaternion (w, x, y, z), rows of the matrix.
QuatToMat(q) ==
    LET w == q[1]  x == q[2]  y == q[3]  z == q[4]
    IN  << <<1 - 2*(y*y + z*z), 2*(x*y - z*w),     2*(x*z + y*w)>>,
           <<2*(x*y + z*w),     1 - 2*(x*x + z*z), 2*(y*z - x*w)>>,
           <<2*(x*z - y*w),     2*(y*z + x*w),     1 - 2*(x*x + y*y)>> >>

Abs(a) == IF a < 0 THEN -a ELSE a

\* A cuboid's volume from pose and extent: centre, box-to-frame rotation, extent.
cuboids_to_polygons(arr) ==
    [r \in 1..Len(arr) |->
        [center |-> <<arr[r][1], arr[r][2], arr[r][3]>>,
         rot    |-> QuatToMat(<<arr[r][7], arr[r][8], arr[r][9], arr[r][10]>>),
         extent |-> <<arr[r][4], arr[r][5], arr[r][6]>>]]

\* Whether a point lies in the oriented box: its offset from the centre, taken
\* to the box frame (R^T d), is within half the extent on every axis.
InsideCuboid(pt, box) ==
    LET d == [k \in 1..3 |-> pt[k] - box.center[k]]
        local == [k \in 1..3 |->
                    box.rot[1][k]*d[1] + box.rot[2][k]*d[2] + box.rot[3][k]*d[3]]
    IN  \A k \in 1..3 : 2 * Abs(local[k]) <= box.extent[k]

\* mask[i][j]: point j is interior to cuboid i.
compute_interior_points_mask(pts, cuboid_vertices) ==
    [i \in 1..Len(cuboid_vertices) |->
        [j \in 1..Len(pts) |-> InsideCuboid(pts[j], cuboid_vertices[i])]]

\* ------------------------------------------------------------ distributions
\* Bernoulli::new(p).unwrap() aborts unless 0 <= p <= 1.
BernoulliValid(prob) == 0 <= prob /\ prob <= PDenom

\* The outcomes distribution.sample can give.
BernoulliSample(prob) ==
    IF prob = 0 THEN {FALSE}
    ELSE IF prob = PDenom THEN {TRUE}
    ELSE {TRUE, FALSE}

\* Uniform::new_inclusive(low, high) asserts low <= high.
UniformValid(low, high) == low <= high

UniformSample(low, high) == low..high

\* ---------------------------------------------------------------- reflection
\* col(c).map(|v| -v): one column negated.
negate_column(frame, c) ==
    [r \in 1..Len(frame) |-> [frame[r] EXCEPT ![c] = -frame[r][c]]]

\* Bug variant: the x variant negates the x column, as the y variant does.
augmented_lidar_x_same_axis(frame) == negate_column(frame, "x")

augmented_lidar_x(frame) == negate_column(frame, "y")

augmented_lidar_y(frame) == negate_column(frame, "x")

pose_column_names == translation_column_names \o orientation_column_names

augmented_cuboids_x(frame) ==
    LET txyz_m == data_frame_to_ndarray_f32(frame, translation_column_names)
        quat_wxyz == data_frame_to_ndarray_f32(frame, orientation_column_names)
        augmented_poses ==
            concatenate(reflect_translation_x(txyz_m), reflect_orientation_x(quat_wxyz))
    IN  with_columns(frame,
            ndarray_to_expr_vec(augmented_poses, pose_column_names, pose_column_names))

augmented_cuboids_y(frame) ==
    LET txyz_m == data_frame_to_ndarray_f32(frame, translation_column_names)
        quat_wxyz == data_frame_to_ndarray_f32(frame, orientation_column_names)
        augmented_poses ==
            concatenate(reflect_translation_y(txyz_m), reflect_orientation_y(quat_wxyz))
    IN  with_columns(frame,
            ndarray_to_expr_vec(augmented_poses, pose_column_names, pose_column_names))

\* Bug variant: the cuboids are returned as given when the draw is true.
scene_reflection_x_lidar_only(l, c, augment) ==
    IF augment THEN <<augmented_lidar_x(l), c>> ELSE <<l, c>>

\* The returned pair, given the draw.
scene_reflection_x(l, c, augment) ==
    IF augment THEN <<augmented_lidar_x(l), augmented_cuboids_x(c)>> ELSE <<l, c>>

scene_reflection_y(l, c, augment) ==
    IF augment THEN <<augmented_lidar_y(l), augmented_cuboids_y(c)>> ELSE <<l, c>>

\* ------------------------------------------------------------------- scaling
\* The indices of a mask row that are true, ascending.
interior_indices(mask_row) ==
    SelectSeq([i \in 1..Len(mask_row) |-> i], LAMBDA i : mask_row[i])

\* points.select(Axis(0), &indices)
select(arr, indices) == [k \in 1..Len(indices) |-> arr[indices[k]]]

\* interior_points *= scale_factor
scale_rows(arr, scale_factor) ==
    [k \in 1..Len(arr) |-> [j \in 1..Len(arr[k]) |-> arr[k][j] * scale_factor]]

\* Bug variant: the slice of interior_points never aborts.
slices_unchecked(indices) == TRUE

\* interior_points.slice(s![index, ..]) is in bounds for every index of the row.
slices_in_bounds(indices) ==
    \A k \in 1..Len(indices) : indices[k] <= Len(indices)

\* for index in indices { points[index] = interior_points[index] }: the
\* assignments made before the first out-of-bounds slice (indices ascend).
assign_rows(arr, interior_points, indices) ==
    [i \in 1..Len(arr) |->
        IF i \in Range(indices) /\ i <= Len(interior_points)
        THEN interior_points[i] ELSE arr[i]]

\* cuboids_ndarray.slice_mut(s![.., 3..6]).par_mapv_inplace(|x| x * scale_factor)
scale_extents(arr, scale_factor) ==
    [r \in 1..Len(arr) |->
        [j \in 1..Len(arr[r]) |->
            IF j \in ExtentSlice THEN arr[r][j] * scale_factor ELSE arr[r][j]]]

\* Bug variant: the interior points are selected from the input frame, not
\* from the then-current array, so a later factor overwrites an earlier one.
loop_body_from_input(pts, arr, mask_row, scale_factor) ==
    LET indices == interior_indices(mask_row)
        interior_points ==
            scale_rows(select(ndarray_from_frame(lidar, lidar_column_names), indices),
                       scale_factor)
        ok == slices_in_bounds(indices)
    IN  [ok |-> ok,
         points |-> assign_rows(pts, interior_points, indices),
         cuboids_ndarray |-> IF ok THEN scale_extents(arr, scale_factor) ELSE arr]

\* Bug variant: a cuboid without interior points is skipped.
loop_body_skip_empty(pts, arr, mask_row, scale_factor) ==
    LET indices == interior_indices(mask_row)
        interior_points == scale_rows(select(pts, indices), scale_factor)
        ok == slices_in_bounds(indices)
    IN  IF indices = <<>>
        THEN [ok |-> TRUE, points |-> pts, cuboids_ndarray |-> arr]
        ELSE [ok |-> ok,
              points |-> assign_rows(pts, interior_points, indices),
              cuboids_ndarray |-> IF ok THEN scale_extents(arr, scale_factor) ELSE arr]

\* One iteration of the loop over the mask rows.
loop_body(pts, arr, mask_row, scale_factor) ==
    LET indices == interior_indices(mask_row)
        interior_points == scale_rows(select(pts, indices), scale_factor)
        ok == slices_in_bounds(indices)
    IN  [ok |-> ok,
         points |-> assign_rows(pts, interior_points, indices),
         cuboids_ndarray |-> IF ok THEN scale_extents(arr, scale_factor) ELSE arr]

\* Bug variant: the frame is built from the three series alone, dropping the
\* columns that were not touched.
augmented_lidar_scale_fresh(frame, pts) ==
    LET series == ndarray_to_expr_vec(pts, lidar_column_names, lidar_column_names)
    IN  [r \in 1..Len(frame) |-> [c \in DOMAIN series |-> series[c][r]]]

augmented_lidar_scale(frame, pts) ==
    with_columns(frame, ndarray_to_expr_vec(pts, lidar_column_names, lidar_column_names))

augmented_cuboids_scale(frame, arr) ==
    with_columns(frame, ndarray_to_expr_vec(arr, cuboid_column_names, CuboidColumns))

\* --------------------------------------------------------------- the machine
Init ==
    /\ pc = "call"
    /\ panic_msg = ""
    /\ op \in {"sample_scene_reflection_x", "sample_scene_reflection_y",
               "sample_random_object_scale"}
    /\ lidar \in LidarFrames
    /\ cuboids \in CuboidFrames
    /\ IF op = "sample_random_object_scale"
       THEN p = 0 /\ low_inclusive \in ScaleGrid /\ high_inclusive \in ScaleGrid
       ELSE p \in Probabilities /\ low_inclusive = 1 /\ high_inclusive = 1
    /\ is_augmented = FALSE
    /\ points = <<>>
    /\ cuboids_ndarray = <<>>
    /\ interior_points_mask = <<>>
    /\ m = 1
    /\ scale_factors = <<>>
    /\ augmented_lidar = <<>>
    /\ augmented_cuboids = <<>>

args == <<op, lidar, cuboids, p, low_inclusive, high_inclusive>>
loop_vars == <<points, cuboids_ndarray, interior_points_mask, m, scale_factors>>
outputs == <<augmented_lidar, augmented_cuboids>>

Panic(msg) == pc' = "panic" /\ panic_msg' = msg

sample_scene_reflection_x ==
    /\ pc = "call" /\ op = "sample_scene_reflection_x"
    /\ IF ~BernoulliValid(p)
       THEN Panic("Bernoulli::new") /\ UNCHANGED <<is_augmented, outputs>>
       ELSE \E b \in BernoulliSample(p) :
               /\ is_augmented' = b
               /\ augmented_lidar' = scene_reflection_x(lidar, cuboids, b)[1]
               /\ augmented_cuboids' = scene_reflection_x(lidar, cuboids, b)[2]
               /\ pc' = "done" /\ UNCHANGED panic_msg
    /\ UNCHANGED <<args, loop_vars>>

sample_scene_reflection_y ==
    /\ pc = "call" /\ op = "sample_scene_reflection_y"
    /\ IF ~BernoulliValid(p)
       THEN Panic("Bernoulli::new") /\ UNCHANGED <<is_augmented, outputs>>
       ELSE \E b \in BernoulliSample(p) :
               /\ is_augmented' = b
               /\ augmented_lidar' = scene_reflection_y(lidar, cuboids, b)[1]
               /\ augmented_cuboids' = scene_reflection_y(lidar, cuboids, b)[2]
               /\ pc' = "done" /\ UNCHANGED panic_msg
    /\ UNCHANGED <<args, loop_vars>>

\* sample_random_object_scale up to the loop: the arrays, the distribution, the mask.
ScaleEnter ==
    /\ pc = "call" /\ op = "sample_random_object_scale"
    /\ IF ~UniformValid(low_inclusive, high_inclusive)
       THEN /\ Panic("Uniform::new_inclusive")
            /\ points' = ndarray_from_frame(lidar, lidar_column_names)
            /\ UNCHANGED <<cuboids_ndarray, interior_points_mask>>
       ELSE /\ points' = ndarray_from_frame(lidar, lidar_column_names)
            /\ cuboids_ndarray' = to_ndarray(cuboids)
            /\ interior_points_mask' =
                   compute_interior_points_mask(points', cuboids_to_polygons(cuboids_ndarray'))
            /\ pc' = "loop" /\ UNCHANGED panic_msg
    /\ UNCHANGED <<args, is_augmented, m, scale_factors, outputs>>

\* One iteration of `for m in interior_points_mask.outer_iter()`.
ScaleStep ==
    /\ pc = "loop" /\ m <= Len(interior_points_mask)
    /\ \E scale_factor \in UniformSample(low_inclusive, high_inclusive) :
          LET step == loop_body(points, cuboids_ndarray,
                                interior_points_mask[m], scale_factor)
          IN  /\ scale_factors' = Append(scale_factors, scale_factor)
              /\ points' = step.points
              /\ cuboids_ndarray' = step.cuboids_ndarray
              /\ IF step.ok
                 THEN m' = m + 1 /\ UNCHANGED <<pc, panic_msg>>
                 ELSE Panic("index out of bounds") /\ UNCHANGED m
    /\ UNCHANGED <<args, is_augmented, interior_points_mask, outputs>>

\* After the loop: both arrays written back into the frames.
ScaleReturn ==
    /\ pc = "loop" /\ m > Len(interior_points_mask)
    /\ augmented_lidar' = augmented_lidar_scale(lidar, points)
    /\ augmented_cuboids' = augmented_cuboids_scale(cuboids, cuboids_ndarray)
    /\ pc' = "done"
    /\ UNCHANGED <<panic_msg, args, is_augmented, loop_vars>>

Next ==
    \/ sample_scene_reflection_x
    \/ sample_scene_reflection_y
    \/ ScaleEnter
    \/ ScaleStep
    \/ ScaleReturn

Spec == Init /\ [][Next]_vars

\* ------------------------------------------------------------------ properties
IsScale == op = "sample_random_object_scale"
IsReflectionX == op = "sample_scene_reflection_x"
IsReflectionY == op = "sample_scene_reflection_y"

\* The call returned its pair.
Returned == pc = "done"

\* The scale range the contract admits: 0 < low <= high.
ValidRange == 0 < low_inclusive /\ low_inclusive <= high_inclusive

\* The loop is about to run the iteration of mask row m.
AtRow == pc = "loop" /\ m <= Len(interior_points_mask)

InputPoint(j) == <<lidar[j].x, lidar[j].y, lidar[j].z>>
OutputPoint(j) == <<augmented_lidar[j].x, augmented_lidar[j].y, augmented_lidar[j].z>>
Times(v, k) == [j \in 1..Len(v) |-> v[j] * k]

\* The cuboids whose mask row holds point j.
Containing(j) == {i \in 1..Len(interior_points_mask) : interior_points_mask[i][j]}

\* The product of the factors drawn for rows 1..r that hold point j.
RECURSIVE FactorProduct(_, _)
FactorProduct(j, r) ==
    IF r = 0 THEN 1
    ELSE FactorProduct(j, r - 1)
         * (IF interior_points_mask[r][j] THEN scale_factors[r] ELSE 1)

\* The interior index set of a mask row is a leading block {1..k} of the rows.
LeadingBlock(mask_row) ==
    \A i \in 1..Len(mask_row) : mask_row[i] => \A j \in 1..i : mask_row[j]

EmptyRow(mask_row) == \A i \in 1..Len(mask_row) : ~mask_row[i]

\* C1: for a valid scale range, after the loop every cuboid's length, width and
\* height equal its input extent times the factor drawn for that cuboid, and no
\* other factor.
C1_ExtentScaledByOwnFactor ==
    (IsScale /\ ValidRange /\ pc \in {"loop", "done"}
        /\ m > Len(interior_points_mask)) =>
        \A i \in 1..Len(cuboids) : \A k \in 1..3 :
            cuboids_ndarray[i][3 + k]
                = cuboids[i][cuboid_column_names[k]] * scale_factors[i]

\* C2: for a valid scale range and any mask row the iteration completes,
\* multiplies the coordinates of exactly the points the row marks by the factor
\* drawn, and leaves the others.
C2_StepScalesExactlyInterior ==
    [][(AtRow /\ ValidRange) =>
        /\ pc' = "loop"
        /\ \A j \in 1..Len(points) :
              points'[j] = IF interior_points_mask[m][j]
                           THEN Times(points[j], scale_factors'[m])
                           ELSE points[j]]_vars

\* C3: with low = high = s > 0 every returned extent is s times the input extent
\* and every point interior to exactly one cuboid is s times its input.
C3_DegenerateRangeAppliesFactorOnce ==
    (IsScale /\ Returned /\ ValidRange /\ low_inclusive = high_inclusive) =>
        /\ \A i \in 1..Len(cuboids) : \A k \in 1..3 :
              augmented_cuboids[i][cuboid_column_names[k]]
                  = low_inclusive * cuboids[i][cuboid_column_names[k]]
        /\ \A j \in 1..Len(lidar) :
              Cardinality(Containing(j)) = 1 =>
                  OutputPoint(j) = Times(InputPoint(j), low_inclusive)

\* C4: a call with low > high or low <= 0 never returns a pair.
C4_InvalidRangeNeverReturns ==
    (IsScale /\ (low_inclusive > high_inclusive \/ low_inclusive <= 0)) => ~Returned

\* What a reflection of the scene is, column by column: the lidar frame with
\* column c negated, the cuboid frame with translation column tc negated and
\* the quaternion components in flipped negated.
LidarMirrored(c) ==
    /\ Len(augmented_lidar) = Len(lidar)
    /\ \A j \in 1..Len(lidar) :
          /\ DOMAIN augmented_lidar[j] = DOMAIN lidar[j]
          /\ \A d \in DOMAIN lidar[j] :
                augmented_lidar[j][d] = IF d = c THEN -lidar[j][d] ELSE lidar[j][d]

CuboidsMirrored(tc, flipped) ==
    /\ Len(augmented_cuboids) = Len(cuboids)
    /\ \A i \in 1..Len(cuboids) :
          /\ DOMAIN augmented_cuboids[i] = DOMAIN cuboids[i]
          /\ \A d \in DOMAIN cuboids[i] :
                augmented_cuboids[i][d]
                    = IF d = tc \/ d \in flipped THEN -cuboids[i][d] ELSE cuboids[i][d]

SceneMirrored ==
    \/ IsReflectionX /\ LidarMirrored("y") /\ CuboidsMirrored("ty_m", {"qx", "qz"})
    \/ IsReflectionY /\ LidarMirrored("x") /\ CuboidsMirrored("tx_m", {"qy", "qz"})

SceneAsGiven == augmented_lidar = lidar /\ augmented_cuboids = cuboids

\* C5: a returned reflection call gives the inputs as they were when the draw
\* was false and the mirrored lidar together with the mirrored cuboids when it
\* was true, never one without the other; p = 0 always gives the former and
\* p = 1 the latter.
C5_DrawDecidesBothStructures ==
    ((IsReflectionX \/ IsReflectionY) /\ Returned) =>
        /\ (IF is_augmented THEN SceneMirrored ELSE SceneAsGiven)
        /\ (p = 0 => ~is_augmented)
        /\ (p = PDenom => is_augmented)

C5_Witness ==
    /\ IsReflectionX /\ Returned /\ p = PDenom
    /\ augmented_lidar # lidar /\ augmented_cuboids # cuboids

\* C6: an applied reflection negates y of every point in the x variant and x in
\* the y variant, leaves the other point columns, and leaves every cuboid's
\* length, width and height.
C6_CrossAxisNegatedExtentsKept ==
    ((IsReflectionX \/ IsReflectionY) /\ Returned /\ is_augmented) =>
        /\ Len(augmented_lidar) = Len(lidar)
        /\ \A j \in 1..Len(lidar) :
              /\ augmented_lidar[j].x = IF IsReflectionY THEN -lidar[j].x ELSE lidar[j].x
              /\ augmented_lidar[j].y = IF IsReflectionX THEN -lidar[j].y ELSE lidar[j].y
              /\ augmented_lidar[j].z = lidar[j].z
              /\ augmented_lidar[j].intensity = lidar[j].intensity
        /\ Len(augmented_cuboids) = Len(cuboids)
        /\ \A i \in 1..Len(cuboids) :
              \A d \in DOMAIN cuboids[i] \ Range(pose_column_names) :
                  augmented_cuboids[i][d] = cuboids[i][d]

C6_Witness ==
    /\ IsReflectionX /\ Returned /\ is_augmented
    /\ Len(cuboids) > 0
    /\ \E j \in 1..Len(lidar) : lidar[j].y # 0 /\ lidar[j].x # 0

\* C7: a returned scaling call gives a lidar frame of the same rows in the same
\* order (row j is input row j scaled) and a cuboid frame of the same rows and
\* columns; only x, y, z and length_m, width_m, height_m may differ from the
\* input, so every translation and orientation is the input's.
C7_RowsAndUntouchedColumnsKept ==
    (IsScale /\ Returned) =>
        /\ Len(augmented_lidar) = Len(lidar)
        /\ \A j \in 1..Len(lidar) :
              /\ DOMAIN augmented_lidar[j] = DOMAIN lidar[j]
              /\ \A d \in DOMAIN lidar[j] \ Range(lidar_column_names) :
                    augmented_lidar[j][d] = lidar[j][d]
              /\ OutputPoint(j)
                    = Times(InputPoint(j), FactorProduct(j, Len(scale_factors)))
        /\ Len(augmented_cuboids) = Len(cuboids)
        /\ \A i \in 1..Len(cuboids) :
              /\ DOMAIN augmented_cuboids[i] = DOMAIN cuboids[i]
              /\ \A d \in DOMAIN cuboids[i] \ Range(cuboid_column_names) :
                    augmented_cuboids[i][d] = cuboids[i][d]

C7_Witness ==
    /\ IsScale /\ Returned
    /\ Len(lidar) = MaxPoints /\ Len(cuboids) > 0
    /\ augmented_lidar # lidar /\ augmented_cuboids # cuboids

\* C8: the mask is the one computed from the input points, row r is scaled by
\* the r-th factor drawn, and every point holds its input coordinates times the
\* product of the factors of the rows done so far that contain it.
C8_OverlapComposesInTableOrder ==
    (IsScale /\ pc \in {"loop", "done"}) =>
        /\ interior_points_mask
              = compute_interior_points_mask(
                    [j \in 1..Len(lidar) |-> InputPoint(j)],
                    cuboids_to_polygons(to_ndarray(cuboids)))
        /\ Len(scale_factors) = m - 1
        /\ \A j \in 1..Len(lidar) :
              points[j] = Times(InputPoint(j), FactorProduct(j, m - 1))
        /\ Returned =>
              \A j \in 1..Len(lidar) :
                  /\ OutputPoint(j) = points[j]
                  /\ Containing(j) = {} => OutputPoint(j) = InputPoint(j)

C8_Witness ==
    /\ IsScale /\ Returned
    /\ \E j \in 1..Len(lidar) :
          /\ Cardinality(Containing(j)) >= 2
          /\ \A i \in Containing(j) : scale_factors[i] = 2
          /\ OutputPoint(j) # Times(InputPoint(j), 2)
    /\ \E j \in 1..Len(lidar) : Containing(j) = {}

C10_OnlyLeadingBlocksFinish ==
    [][/\ AtRow =>
            IF LeadingBlock(interior_points_mask[m])
            THEN pc' = "loop" /\ m' = m + 1
            ELSE pc' = "panic" /\ panic_msg' = "index out of bounds"
       /\ pc = "panic" => pc' = "panic"
       /\ (IsScale /\ pc = "loop" /\ pc' = "done") =>
            /\ \A i \in 1..Len(interior_points_mask) :
                  LeadingBlock(interior_points_mask[i])
            /\ \A j \in 1..Len(lidar) :
                  <<augmented_lidar'[j].x, augmented_lidar'[j].y, augmented_lidar'[j].z>>
                      = Times(InputPoint(j), FactorProduct(j, Len(scale_factors)))]_vars

C10_Witness ==
    /\ IsScale /\ pc = "panic" /\ panic_msg = "index out of bounds"
    /\ m = Len(interior_points_mask)
    /\ ~LeadingBlock(interior_points_mask[m])
    /\ \A i \in 1..(m - 1) : ~EmptyRow(interior_points_mask[i])

====
